---- MODULE Spec2Model ----
(***************************************************************************)
(* The batch job engine of backend/routes/batch_operations.py: the two     *)
(* submission handlers, the status query, the cancel handler and the       *)
(* background executor process_batch_job, over a store of job records and  *)
(* of company/collection association rows.                                 *)
(*                                                                         *)
(* Every database round trip of the code (a query, a refresh, a commit) is *)
(* one atomic step; handlers and executors of different requests           *)
(* interleave between those steps.  A commit writes the columns the        *)
(* session changed and no others (the ORM's UPDATE of dirty attributes).   *)
(* The set of collections is fixed: collection create/delete is outside    *)
(* the engine.                                                             *)
(*                                                                         *)
(* Any statement of a chunk's mutation (lines 87-123) may raise; the       *)
(* except block's own commit is taken to succeed.  Whether the association *)
(* table rejects a second row for a pair is not in these sources: both     *)
(* kinds of table are modelled (store).                                    *)
(*                                                                         *)
(* Four families of behaviours share one next-state relation and differ    *)
(* in the inputs they draw (scen): Spec, one job over lists of at most     *)
(* MaxLen ids (chunk size 1); SpecLarge, one job over lists of more than   *)
(* SmallLimit ids (chunk size 5); SpecEdge, one job over a list of exactly *)
(* SmallLimit ids or of one more; SpecConc, two jobs over one-id lists.    *)
(***************************************************************************)
EXTENDS Integers, Sequences, FiniteSets, TLC

(* ------------------------------ bounds -------------------------------- *)
MaxId == 2          \* company ids are 1..MaxId
MaxLen == 2         \* longest identifier list of a small job
MaxInflight == 1    \* cancel requests of one job between read and commit
LargeExtra == 1     \* large lists have SmallLimit+1 .. SmallLimit+LargeExtra ids

(* ------------------------- program constants -------------------------- *)
SmallLimit == 100   \* total_items <= 100 : process individually
SmallBatch == 1
LargeBatch == 5
NotFound == 404
Conflict == 400
Ok == 200

None == "None"
Ids == 1..MaxId
Existing == {"c1", "c2"}            \* collections present in the store
Collections == Existing \cup {"c3"} \* "c3" is an id no collection has
Pairs == Ids \X Existing
Terminal == {"COMPLETED", "FAILED", "CANCELLED"}

Min(a, b) == IF a < b THEN a ELSE b

(* identifier lists *)
ShortLists == UNION {[1..n -> Ids] : n \in 0..MaxLen}
Cycle(p, n) == [x \in 1..n |-> p[((x - 1) % Len(p)) + 1]]
LongLists == {Cycle(p, n) : p \in {<<1>>, <<1, 2>>},
                            n \in (SmallLimit + 1)..(SmallLimit + LargeExtra)}
\* the longest list processed individually and the shortest processed in batches
EdgeLists == {Cycle(<<1>>, n) : n \in {SmallLimit, SmallLimit + 1}}

VARIABLES
    scen,            \* which inputs the behaviour draws from (fixed by Init)
    store,           \* whether the association table rejects a duplicate pair:
                     \* "unique", "plain", or "undetermined" until it matters
    rows0,           \* the association rows before any job ran
    rows,            \* committed association rows: pair -> number of rows
    jobs,            \* committed job records: job id -> record
    ex,              \* each dispatched executor's position and locals
    cancelling,      \* per job: cancel requests between their read and commit
    acked,           \* job ids whose cancel request returned success
    issued,          \* per job: association statements its executor issued
    lastSubmit       \* the status code of the last submission's response

vars == <<scen, store, rows0, rows, jobs, ex, cancelling, acked,
          issued, lastSubmit>>

JobLimit == IF scen = "conc" THEN 2 ELSE 1
JobSlots == 1..2                     \* ids the store may give a job
JobIdSpace == JobSlots \cup {3}      \* ids a caller may name; 3 is never created
Pool == IF scen = "large" THEN LongLists
        ELSE IF scen = "edge" THEN EdgeLists
        ELSE IF scen = "conc" THEN {<<1>>}
        ELSE ShortLists

(* ------------------------------ helpers ------------------------------- *)
\* a size test that puts a list of exactly SmallLimit ids with the large ones
BatchSize_StrictLimit(n) == IF n < SmallLimit THEN SmallBatch ELSE LargeBatch

\* lines 70-75: the chunk size of a job of n identifiers
BatchSize(n) == IF n <= SmallLimit THEN SmallBatch ELSE LargeBatch

\* line 87: company_ids[i:i + batch_size], i counted from 0
BatchIds(ids, i) == SubSeq(ids, i + 1, Min(i + BatchSize(Len(ids)), Len(ids)))

Count(s, x) == Cardinality({p \in 1..Len(s) : s[p] = x})

\* columns a new BatchJob row gets from the table's defaults
BatchJobDefaults == [status |-> "PENDING", processed_count |-> 0,
                     error_message |-> None]

\* lines 169-175 and 262-268: the row a submission creates
NewJob(type, src, tgt, ids) ==
    [job_type |-> type, source_collection_id |-> src,
     target_collection_id |-> tgt, total_count |-> Len(ids),
     company_ids |-> ids,
     status |-> BatchJobDefaults.status,
     processed_count |-> BatchJobDefaults.processed_count,
     error_message |-> BatchJobDefaults.error_message]

\* the executor a submission dispatches (lines 182-186, 275-279): its
\* position pc, the loop's locals i, processed, the chunk's locals k, staged,
\* pend (rows its uncommitted DELETEs took), what its reads returned:
\* picked (the status read at pickup), sawCancel (a chunk check read
\* CANCELLED), and what it has done so far: dispatched (the start indices of
\* the chunks it took, line 87), applied (the list positions, counted from
\* 1, whose mutation it committed)
NewExecutor == [pc |-> "queued", i |-> 0, k |-> 0, staged |-> <<>>,
                processed |-> 0, pend |-> [x \in Ids |-> 0],
                picked |-> None, sawCancel |-> FALSE,
                dispatched |-> {}, applied |-> {}]

\* line 145: the executor has returned
Stopped(j) == j \in DOMAIN ex /\
              ex[j].pc \in {"aborted", "stopped", "finished", "failed"}

(* ------------------------------- Init --------------------------------- *)
\* at most one row per pair to begin with: no row at all, or company 1 in "c1"
InitialRows == {r \in [Pairs -> 0..1] : \A pr \in Pairs : r[pr] = 1 => pr = <<1, "c1">>}

InitCommon ==
    /\ store = "undetermined"
    /\ rows0 \in InitialRows
    /\ rows = rows0
    /\ jobs = <<>>
    /\ ex = <<>>
    /\ cancelling = <<>>
    /\ acked = {}
    /\ issued = <<>>
    /\ lastSubmit = 0          \* no submission answered yet

Init == scen = "small" /\ InitCommon
InitConc == scen = "conc" /\ InitCommon
InitLarge == scen = "large" /\ InitCommon
InitEdge == scen = "edge" /\ InitCommon

(* --------------------------- submission ------------------------------- *)
\* a validation that forgets the target collection
AddResponse_SourceOnly(src, tgt) ==
    IF src \notin Existing THEN NotFound ELSE Ok

\* lines 157-166 and 188: what create_batch_add_job answers
AddResponse(src, tgt) ==
    IF src \notin Existing \/ tgt \notin Existing THEN NotFound ELSE Ok

\* lines 148-197: create_batch_add_job; a refused request changes nothing
CreateBatchAddJob(src, tgt, ids) ==
    /\ lastSubmit' = AddResponse(src, tgt)
    /\ IF AddResponse(src, tgt) = NotFound
       THEN UNCHANGED <<jobs, ex, issued, cancelling>>
       ELSE /\ Len(jobs) < JobLimit
            /\ jobs' = Append(jobs, NewJob("ADD", src, tgt, ids))
            /\ ex' = Append(ex, NewExecutor)
            /\ issued' = Append(issued, {})
            /\ cancelling' = Append(cancelling, 0)

\* lines 254-259 and 281: what create_batch_delete_job answers
DeleteResponse(coll) == IF coll \notin Existing THEN NotFound ELSE Ok

\* lines 245-290: create_batch_delete_job
CreateBatchDeleteJob(coll, ids) ==
    /\ lastSubmit' = DeleteResponse(coll)
    /\ IF DeleteResponse(coll) = NotFound
       THEN UNCHANGED <<jobs, ex, issued, cancelling>>
       ELSE /\ Len(jobs) < JobLimit
            /\ jobs' = Append(jobs, NewJob("DELETE", coll, None, ids))
            /\ ex' = Append(ex, NewExecutor)
            /\ issued' = Append(issued, {})
            /\ cancelling' = Append(cancelling, 0)

\* the lists requests are drawn with: a refused request never reads its list
ListsFor(code) == IF code = NotFound THEN {<<>>, <<1>>} ELSE Pool

SubmitAdd ==
    /\ \E src \in Collections, tgt \in Collections :
           \E ids \in ListsFor(AddResponse(src, tgt)) :
               CreateBatchAddJob(src, tgt, ids)
    /\ UNCHANGED <<scen, store, rows0, rows, acked>>

SubmitDelete ==
    /\ \E coll \in Collections :
           \E ids \in ListsFor(DeleteResponse(coll)) :
               CreateBatchDeleteJob(coll, ids)
    /\ UNCHANGED <<scen, store, rows0, rows, acked>>

\* lines 200-221: get_batch_job_status, a read of the committed record
GetBatchJobStatus(jid) ==
    IF jid \notin DOMAIN jobs
    THEN [code |-> NotFound]
    ELSE [code |-> Ok, job_id |-> jid, status |-> jobs[jid].status,
          job_type |-> jobs[jid].job_type,
          total_count |-> jobs[jid].total_count,
          processed_count |-> jobs[jid].processed_count,
          error_message |-> jobs[jid].error_message]

(* ------------------------------ cancel -------------------------------- *)
\* lines 231-237: what cancel_batch_job decides on the job it read
CancelDecision(jid) ==
    IF jid \notin DOMAIN jobs THEN NotFound
    ELSE IF jobs[jid].status \in Terminal THEN Conflict
    ELSE Ok

\* lines 231-237: cancel_batch_job reads the job; a refused request
\* changes nothing
CancelRead(jid) ==
    /\ IF CancelDecision(jid) = Ok
       THEN /\ cancelling[jid] < MaxInflight
            /\ cancelling' = [cancelling EXCEPT ![jid] = @ + 1]
       ELSE UNCHANGED cancelling
    /\ UNCHANGED <<scen, store, rows0, rows, jobs, ex, acked, issued,
                   lastSubmit>>

\* lines 239-242: cancel_batch_job writes CANCELLED, commits and answers
CancelCommit(jid) ==
    /\ jid \in DOMAIN jobs
    /\ cancelling[jid] > 0
    /\ jobs' = [jobs EXCEPT ![jid].status = "CANCELLED"]
    /\ cancelling' = [cancelling EXCEPT ![jid] = @ - 1]
    /\ acked' = acked \cup {jid}
    /\ UNCHANGED <<scen, store, rows0, rows, ex, issued, lastSubmit>>

(* ----------------------------- executor ------------------------------- *)
Frame == UNCHANGED <<scen, store, rows0, cancelling, acked, lastSubmit>>

\* a loop that runs its body once before it tests the index
LoopAt_BodyFirst(ids, i) == IF i < Len(ids) \/ i = 0 THEN "check" ELSE "final"

\* where the loop of line 80 goes with index i: into the body or past it
LoopAt(ids, i) == IF i < Len(ids) THEN "check" ELSE "final"

\* a pickup that does not look at the status
OnPickup_NoCheck(status) == "start"

\* lines 56-58: what the executor does on the status it read at pickup
OnPickup(status) == IF status = "CANCELLED" THEN "aborted" ELSE "start"

\* lines 51-58: the executor reads its job; a cancelled job is left alone
Pickup(j) ==
    /\ j \in DOMAIN ex
    /\ ex[j].pc = "queued"
    /\ ex' = [ex EXCEPT ![j].pc = OnPickup(jobs[j].status),
                        ![j].picked = jobs[j].status]
    /\ UNCHANGED <<rows, jobs, issued>>
    /\ Frame

\* lines 61-77: status := IN_PROGRESS, commit; the loop's locals
MarkInProgress(j) ==
    /\ j \in DOMAIN ex
    /\ ex[j].pc = "start"
    /\ jobs' = [jobs EXCEPT ![j].status = "IN_PROGRESS"]
    /\ ex' = [ex EXCEPT ![j].pc = LoopAt(jobs[j].company_ids, 0),
                        ![j].i = 0, ![j].processed = 0]
    /\ UNCHANGED <<rows, issued>>
    /\ Frame

\* a chunk check that waits at the check while the job is cancelled
OnCancelCheck_Wait(status, type) ==
    IF status = "CANCELLED" THEN "check"
    ELSE IF type = "ADD" THEN "lookup" ELSE "delete"

\* a chunk check that goes on whatever it read
OnCancelCheck_Ignore(status, type) == IF type = "ADD" THEN "lookup" ELSE "delete"

\* line 83: what the cancellation check does on the status it re-read
OnCancelCheck(status, type) ==
    IF status = "CANCELLED" THEN "stopped"
    ELSE IF type = "ADD" THEN "lookup" ELSE "delete"

\* lines 82-91: refresh the job, stop if cancelled, else take the chunk
CancelCheck(j) ==
    /\ j \in DOMAIN ex
    /\ ex[j].pc = "check"
    /\ ex' = [ex EXCEPT ![j].pc = OnCancelCheck(jobs[j].status, jobs[j].job_type),
                        ![j].sawCancel = (jobs[j].status = "CANCELLED"),
                        ![j].k = 0, ![j].staged = <<>>,
                        ![j].dispatched =
                            IF OnCancelCheck(jobs[j].status, jobs[j].job_type)
                               \in {"lookup", "delete"}
                            THEN @ \cup {ex[j].i} ELSE @]
    /\ UNCHANGED <<rows, jobs, issued>>
    /\ Frame

\* a lookup that stages the company whether or not a row exists
AddLookup_AlwaysStage(j) ==
    /\ j \in DOMAIN ex
    /\ ex[j].pc = "lookup"
    /\ LET batch == BatchIds(jobs[j].company_ids, ex[j].i)
           id == batch[ex[j].k + 1]
       IN ex' = [ex EXCEPT ![j].staged = Append(ex[j].staged, id),
                           ![j].k = ex[j].k + 1,
                           ![j].pc = IF ex[j].k + 1 < Len(batch)
                                     THEN "lookup" ELSE "insert"]
    /\ UNCHANGED <<rows, jobs, issued>>
    /\ Frame

\* lines 92-107: one company of the chunk: stage it unless a row exists
AddLookup(j) ==
    /\ j \in DOMAIN ex
    /\ ex[j].pc = "lookup"
    /\ LET batch == BatchIds(jobs[j].company_ids, ex[j].i)
           id == batch[ex[j].k + 1]
           existing == rows[<<id, jobs[j].target_collection_id>>] > 0
           staged == IF existing THEN ex[j].staged ELSE Append(ex[j].staged, id)
       IN ex' = [ex EXCEPT ![j].staged = staged,
                           ![j].k = ex[j].k + 1,
                           ![j].pc = IF ex[j].k + 1 < Len(batch)
                                     THEN "lookup" ELSE "insert"]
    /\ UNCHANGED <<rows, jobs, issued>>
    /\ Frame

\* the staged rows would give some pair a second row
Conflicting(staged, tgt) ==
    \E x \in Ids : Count(staged, x) > 0 /\ rows[<<x, tgt>>] + Count(staged, x) > 1

\* what the association table may turn out to be when rows are inserted:
\* the first insert of a second row for a pair decides it for good
StoreModes(staged, tgt) ==
    IF Conflicting(staged, tgt) /\ store = "undetermined"
    THEN {"unique", "plain"} ELSE {store}

\* whether a table of mode m refuses the staged rows
InsertRefused(m, staged, tgt) == m = "unique" /\ Conflicting(staged, tgt)

\* line 87: the list positions of the chunk the executor is in, and those
\* of them its DELETE statements have covered so far
ChunkPositions(j) ==
    (ex[j].i + 1)..(ex[j].i + Len(BatchIds(jobs[j].company_ids, ex[j].i)))
DeletedPositions(j) ==
    IF jobs[j].job_type = "DELETE" /\ ex[j].pc \in {"delete", "delcommit", "handler"}
    THEN (ex[j].i + 1)..(ex[j].i + ex[j].k) ELSE {}

\* lines 110-112: bulk insert of the staged rows and commit
AddInsert(j) ==
    /\ j \in DOMAIN ex
    /\ ex[j].pc = "insert"
    /\ LET staged == ex[j].staged
           tgt == jobs[j].target_collection_id
       IN IF staged = <<>>
          THEN /\ ex' = [ex EXCEPT ![j].pc = "progress",
                                   ![j].applied = @ \cup ChunkPositions(j)]
               /\ UNCHANGED <<rows, issued, store>>
          ELSE /\ issued' = [issued EXCEPT ![j] = @ \cup
                     {<<"insert", staged[p], tgt>> : p \in 1..Len(staged)}]
               /\ \E m \in StoreModes(staged, tgt) :
                    /\ store' = m
                    /\ IF InsertRefused(m, staged, tgt)
                       THEN /\ ex' = [ex EXCEPT ![j].pc = "handler"]
                            /\ UNCHANGED rows
                       ELSE /\ rows' = [pr \in Pairs |->
                                   IF pr[2] = tgt
                                   THEN rows[pr] + Count(staged, pr[1])
                                   ELSE rows[pr]]
                            /\ ex' = [ex EXCEPT ![j].pc = "progress",
                                          ![j].applied = @ \cup ChunkPositions(j)]
    /\ UNCHANGED jobs
    /\ UNCHANGED <<scen, rows0, cancelling, acked, lastSubmit>>

\* lines 116-122: one DELETE statement of the chunk, inside the open
\* transaction: it takes the rows of the pair that are committed now
DeleteRow(j) ==
    /\ j \in DOMAIN ex
    /\ ex[j].pc = "delete"
    /\ LET batch == BatchIds(jobs[j].company_ids, ex[j].i)
           id == batch[ex[j].k + 1]
           src == jobs[j].source_collection_id
       IN /\ \A o \in DOMAIN ex \ {j} :
                  ~(jobs[o].job_type = "DELETE"
                    /\ jobs[o].source_collection_id = src /\ ex[o].pend[id] > 0)
          /\ ex' = [ex EXCEPT ![j].pend[id] = rows[<<id, src>>],
                              ![j].k = ex[j].k + 1,
                              ![j].pc = IF ex[j].k + 1 < Len(batch)
                                        THEN "delete" ELSE "delcommit"]
          /\ issued' = [issued EXCEPT ![j] = @ \cup {<<"delete", id, src>>}]
    /\ UNCHANGED <<rows, jobs>>
    /\ Frame

\* a commit that drops the companies' rows in every collection
AfterDeletes_AnyCollection(j) ==
    [pr \in Pairs |->
        IF jobs[j].job_type = "DELETE" /\ ex[j].pend[pr[1]] > 0
        THEN 0 ELSE rows[pr]]

\* the rows left once the session's pending DELETEs are committed
AfterDeletes(j) ==
    [pr \in Pairs |->
        IF jobs[j].job_type = "DELETE" /\ pr[2] = jobs[j].source_collection_id
        THEN rows[pr] - ex[j].pend[pr[1]] ELSE rows[pr]]

\* line 123: commit of the chunk's DELETEs
DeleteCommit(j) ==
    /\ j \in DOMAIN ex
    /\ ex[j].pc = "delcommit"
    /\ rows' = AfterDeletes(j)
    /\ ex' = [ex EXCEPT ![j].pc = "progress", ![j].pend = [x \in Ids |-> 0],
                        ![j].applied = @ \cup DeletedPositions(j)]
    /\ UNCHANGED <<jobs, issued>>
    /\ Frame

\* progress counted in chunks, not in identifiers
Advance_CountChunks(processed, batch) == processed + 1

\* progress counted by the chunk size of a large job, not the chunk's length
Advance_ByBatchSize(processed, batch) == processed + LargeBatch

\* line 126: processed += len(batch_ids)
Advance(processed, batch) == processed + Len(batch)

\* a progress update left in the session, not committed
Progress_Uncommitted(j) ==
    /\ j \in DOMAIN ex
    /\ ex[j].pc = "progress"
    /\ LET ids == jobs[j].company_ids
           done == Advance(ex[j].processed, BatchIds(ids, ex[j].i))
           ni == ex[j].i + BatchSize(Len(ids))
       IN ex' = [ex EXCEPT ![j].processed = done, ![j].i = ni,
                           ![j].pc = LoopAt(ids, ni)]
    /\ UNCHANGED <<rows, jobs, issued>>
    /\ Frame

\* a loop whose index steps over every second chunk
Progress_SkipChunk(j) ==
    /\ j \in DOMAIN ex
    /\ ex[j].pc = "progress"
    /\ LET ids == jobs[j].company_ids
           done == Advance(ex[j].processed, BatchIds(ids, ex[j].i))
           ni == ex[j].i + 2 * BatchSize(Len(ids))
       IN /\ jobs' = [jobs EXCEPT ![j].processed_count = done]
          /\ ex' = [ex EXCEPT ![j].processed = done, ![j].i = ni,
                              ![j].pc = LoopAt(ids, ni)]
    /\ UNCHANGED <<rows, issued>>
    /\ Frame

\* lines 126-128 and the loop's step: processed_count := processed, commit
Progress(j) ==
    /\ j \in DOMAIN ex
    /\ ex[j].pc = "progress"
    /\ LET ids == jobs[j].company_ids
           done == Advance(ex[j].processed, BatchIds(ids, ex[j].i))
           ni == ex[j].i + BatchSize(Len(ids))
       IN /\ jobs' = [jobs EXCEPT ![j].processed_count = done]
          /\ ex' = [ex EXCEPT ![j].processed = done, ![j].i = ni,
                              ![j].pc = LoopAt(ids, ni)]
    /\ UNCHANGED <<rows, issued>>
    /\ Frame

\* lines 131-132: the final progress update
FinalProgress(j) ==
    /\ j \in DOMAIN ex
    /\ ex[j].pc = "final"
    /\ jobs' = [jobs EXCEPT ![j].processed_count = ex[j].processed]
    /\ ex' = [ex EXCEPT ![j].pc = "complete"]
    /\ UNCHANGED <<rows, issued>>
    /\ Frame

\* lines 135-136: status := COMPLETED, commit
Complete(j) ==
    /\ j \in DOMAIN ex
    /\ ex[j].pc = "complete"
    /\ jobs' = [jobs EXCEPT ![j].status = "COMPLETED"]
    /\ ex' = [ex EXCEPT ![j].pc = "finished"]
    /\ UNCHANGED <<rows, issued>>
    /\ Frame

\* lines 87-123 raising: a statement of the chunk's mutation fails
ChunkFails(j) ==
    /\ j \in DOMAIN ex
    /\ ex[j].pc \in {"lookup", "insert", "delete", "delcommit"}
    /\ ex' = [ex EXCEPT ![j].pc = "handler"]
    /\ UNCHANGED <<rows, jobs, issued>>
    /\ Frame

\* a handler that leaves a cancelled job's status alone
OnException_KeepCancelled(j) ==
    /\ j \in DOMAIN ex
    /\ ex[j].pc = "handler"
    /\ jobs' = [jobs EXCEPT ![j].status = IF @ = "CANCELLED" THEN @ ELSE "FAILED",
                            ![j].error_message = "error"]
    /\ rows' = AfterDeletes(j)
    /\ ex' = [ex EXCEPT ![j].pc = "failed", ![j].pend = [x \in Ids |-> 0],
                        ![j].applied = @ \cup DeletedPositions(j)]
    /\ UNCHANGED issued
    /\ Frame

\* lines 138-142: status := FAILED, error_message := str(e), commit; the
\* commit also ends the transaction the failed chunk left open
OnException(j) ==
    /\ j \in DOMAIN ex
    /\ ex[j].pc = "handler"
    /\ jobs' = [jobs EXCEPT ![j].status = "FAILED",
                            ![j].error_message = "error"]
    /\ rows' = AfterDeletes(j)
    /\ ex' = [ex EXCEPT ![j].pc = "failed", ![j].pend = [x \in Ids |-> 0],
                        ![j].applied = @ \cup DeletedPositions(j)]
    /\ UNCHANGED issued
    /\ Frame

\* lines 40-145: one step of the executor of job j
ProcessBatchJob(j) ==
    \/ Pickup(j) \/ MarkInProgress(j) \/ CancelCheck(j)
    \/ AddLookup(j) \/ AddInsert(j) \/ DeleteRow(j) \/ DeleteCommit(j)
    \/ Progress(j) \/ FinalProgress(j) \/ Complete(j)
    \/ ChunkFails(j) \/ OnException(j)

Execute == \E j \in JobSlots : ProcessBatchJob(j)
Cancel == \E jid \in JobIdSpace : CancelRead(jid) \/ CancelCommit(jid)

Next == SubmitAdd \/ SubmitDelete \/ Cancel \/ Execute

Spec == Init /\ [][Next]_vars
SpecConc == InitConc /\ [][Next]_vars
SpecLarge == InitLarge /\ [][Next]_vars
SpecEdge == InitEdge /\ [][Next]_vars

\* every dispatched executor keeps being scheduled, and each statement it
\* runs returns, with its result or with an error
Fairness == \A j \in JobSlots : WF_vars(ProcessBatchJob(j))
SpecFair == Init /\ [][Next]_vars /\ Fairness
SpecConcFair == InitConc /\ [][Next]_vars /\ Fairness
(* ============================== claims ================================ *)
JobIsFor(j, type) == j \in DOMAIN jobs /\ jobs[j].job_type = type

\* the moves of the state machine: PENDING -> IN_PROGRESS -> terminal, and
\* PENDING -> CANCELLED
LegalMoves == {<<"PENDING", "IN_PROGRESS">>, <<"PENDING", "CANCELLED">>}
              \cup ({"IN_PROGRESS"} \X Terminal)

\* C1: a job's committed status only moves along PENDING -> IN_PROGRESS ->
\* {COMPLETED, FAILED, CANCELLED} or PENDING -> CANCELLED; a terminal status
\* is never changed by a later commit of the executor or of a cancel request.
C1_StatusMonotonic ==
    [][\A j \in DOMAIN jobs :
          \/ jobs'[j].status = jobs[j].status
          \/ <<jobs[j].status, jobs'[j].status>> \in LegalMoves]_vars

\* C2: once a cancel request of a job was acknowledged, the job's committed
\* status is CANCELLED whenever its executor has stopped.
C2_AckedCancelEndsCancelled ==
    \A j \in DOMAIN jobs :
        (j \in acked /\ Stopped(j)) => jobs[j].status = "CANCELLED"

\* C3: a step of the cancel handler on a job whose committed status is
\* COMPLETED, FAILED or CANCELLED answers Conflict and changes no job record
\* and acknowledges nothing, also when the status became terminal between
\* the handler's read and its commit.
C3_CancelOnTerminalRefused ==
    [][\A jid \in DOMAIN jobs :
          (jobs[jid].status \in Terminal /\ (CancelRead(jid) \/ CancelCommit(jid)))
          => (CancelDecision(jid) = Conflict /\ jobs' = jobs /\ acked' = acked)]_vars

\* C4: 0 <= processed_count <= total_count in every state, and no commit
\* lowers a job's processed_count.
C4_ProcessedCount ==
    /\ [](\A j \in DOMAIN jobs :
            /\ 0 <= jobs[j].processed_count
            /\ jobs[j].processed_count <= jobs[j].total_count)
    /\ [][\A j \in DOMAIN jobs :
            jobs'[j].processed_count >= jobs[j].processed_count]_vars

C4_Witness ==
    \E j \in DOMAIN jobs :
        /\ jobs[j].total_count > SmallLimit
        /\ jobs[j].status = "COMPLETED"
        /\ jobs[j].processed_count = jobs[j].total_count
        /\ jobs[j].total_count % LargeBatch # 0

\* C5: once a chunk check of the executor has read CANCELLED, the job's
\* status is CANCELLED, its processed_count is that of the last finished
\* chunk, its error_message is unset, and no later step changes the job
\* record, the association rows or the statements the executor has issued.
C5_StopOnCancel ==
    /\ [](\A j \in DOMAIN ex :
            ex[j].sawCancel =>
                /\ jobs[j].status = "CANCELLED"
                /\ jobs[j].processed_count = ex[j].i
                /\ jobs[j].error_message = None)
    /\ [][\A j \in DOMAIN ex :
            ex[j].sawCancel =>
                /\ jobs'[j] = jobs[j]
                /\ issued'[j] = issued[j]
                /\ rows' = rows]_vars

C5_Witness ==
    \E j \in DOMAIN ex :
        /\ ex[j].sawCancel
        /\ jobs[j].processed_count > 0
        /\ jobs[j].processed_count < jobs[j].total_count
        /\ issued[j] # {}

\* C6: an executor that read CANCELLED at pickup leaves the job CANCELLED
\* with processed_count 0 and no error_message, and issues no association
\* statement: the rows stay as they were.
C6_PickupOfCancelledJob ==
    \A j \in DOMAIN ex :
        ex[j].picked = "CANCELLED" =>
            /\ jobs[j].status = "CANCELLED"
            /\ jobs[j].processed_count = 0
            /\ jobs[j].error_message = None
            /\ issued[j] = {}
            /\ rows = rows0

C6_Witness ==
    \E j \in DOMAIN ex :
        ex[j].picked = "CANCELLED" /\ j \in acked /\ jobs[j].total_count > 0

\* the rows of the chunks before position i, as their mutation left them
EarlierChunksKept(j, i, r) ==
    \A p \in 1..i :
        LET id == jobs[j].company_ids[p] IN
        IF jobs[j].job_type = "ADD"
        THEN r[<<id, jobs[j].target_collection_id>>] >= 1
        ELSE r[<<id, jobs[j].source_collection_id>>] = 0

\* C7: when a chunk's processing has failed, the executor's next and last
\* step commits status FAILED with an error_message, whatever cancel was
\* committed meanwhile; processed_count is then the length of the chunks
\* before the failing one, whose association changes remain; the executor
\* issues no further statement.
C7_FailureCapture ==
    [][\A j \in DOMAIN ex :
          /\ ex[j].pc = "handler" =>
                /\ issued'[j] = issued[j]
                /\ ex'[j].pc \in {"handler", "failed"}
                /\ ex'[j].pc = "failed" =>
                      /\ jobs'[j].status = "FAILED"
                      /\ jobs'[j].error_message # None
                      /\ jobs'[j].processed_count = ex[j].i
                      /\ EarlierChunksKept(j, ex[j].i, rows')
          /\ ex[j].pc = "failed" =>
                /\ ex'[j] = ex[j]
                /\ issued'[j] = issued[j]
                /\ jobs'[j].processed_count = jobs[j].processed_count
                /\ jobs'[j].error_message = jobs[j].error_message]_vars

C7_Witness ==
    \E j \in DOMAIN ex :
        /\ ex[j].pc = "failed"
        /\ j \in acked
        /\ jobs[j].status = "FAILED"
        /\ jobs[j].error_message # None
        /\ jobs[j].processed_count = LargeBatch
        /\ issued[j] # {}

\* C8: no ADD job exists whose source collection is its target collection.
C8_EqualSourceTargetRejected ==
    \A j \in DOMAIN jobs :
        jobs[j].job_type = "ADD" =>
            jobs[j].source_collection_id # jobs[j].target_collection_id

\* C9: a submission naming a collection that does not exist answers NotFound;
\* a step that answers NotFound to a submission creates no job record,
\* dispatches no executor and changes no row; a step that adds a job record
\* answers Ok, and no job record names a missing collection; the status
\* query of an id that was never created answers NotFound.
C9_MissingCollectionRefused ==
    /\ [](/\ \A jid \in JobIdSpace \ DOMAIN jobs :
               GetBatchJobStatus(jid).code = NotFound
          /\ \A src \in Collections, tgt \in Collections :
               (src \notin Existing \/ tgt \notin Existing)
               => AddResponse(src, tgt) = NotFound
          /\ \A coll \in Collections \ Existing : DeleteResponse(coll) = NotFound
          /\ \A j \in DOMAIN jobs :
               /\ jobs[j].source_collection_id \in Existing
               /\ jobs[j].job_type = "ADD" =>
                      jobs[j].target_collection_id \in Existing)
    /\ [][/\ (lastSubmit' = NotFound /\ lastSubmit # NotFound)
               => UNCHANGED <<jobs, ex, rows>>
          /\ Len(jobs') # Len(jobs) => lastSubmit' = Ok]_vars

C9_Witness ==
    /\ lastSubmit = NotFound
    /\ jobs = <<>>
    /\ ex = <<>>
    /\ \A jid \in JobIdSpace : GetBatchJobStatus(jid).code = NotFound

\* C10: when an ADD job has run to COMPLETED (no other job exists), every
\* company of its list and every company the target held before has exactly
\* one row in the target, and no other company has one.
C10_AddCompletedMembership ==
    \A j \in DOMAIN jobs :
        (JobIsFor(j, "ADD") /\ jobs[j].status = "COMPLETED"
         /\ ex[j].pc = "finished") =>
            \A x \in Ids :
                rows[<<x, jobs[j].target_collection_id>>] =
                    IF \/ rows0[<<x, jobs[j].target_collection_id>>] = 1
                       \/ \E p \in 1..Len(jobs[j].company_ids) :
                              jobs[j].company_ids[p] = x
                    THEN 1 ELSE 0

\* C11: in every state each (company, collection) pair has at most one
\* association row, also while two ADD jobs with overlapping lists run
\* against the same target.
C11_OneRowPerPair ==
    \A pr \in Pairs : rows[pr] <= 1

\* the mutation of job j was in effect before it ran (no other job exists):
\* every company of an ADD job's list had a row in the target, no company
\* of a DELETE job's list had one in the source
AlreadyInEffect(j) ==
    \A p \in 1..Len(jobs[j].company_ids) :
        LET id == jobs[j].company_ids[p] IN
        IF jobs[j].job_type = "ADD"
        THEN rows0[<<id, jobs[j].target_collection_id>>] >= 1
        ELSE rows0[<<id, jobs[j].source_collection_id>>] = 0

\* C12: a job whose mutation is already in effect leaves the association
\* rows as they were at every step (an ADD job stages and inserts nothing),
\* and the step that ends it commits COMPLETED with processed_count =
\* total_count and no error_message.
C12_NoOpJobCompletes ==
    /\ [](\A j \in DOMAIN jobs :
            AlreadyInEffect(j) =>
                /\ rows = rows0
                /\ ex[j].staged = <<>>
                /\ \A st \in issued[j] : st[1] # "insert")
    /\ [][\A j \in DOMAIN jobs :
            (AlreadyInEffect(j) /\ ex[j].pc = "complete" /\ ex'[j].pc = "finished") =>
                /\ jobs'[j].status = "COMPLETED"
                /\ jobs'[j].processed_count = jobs[j].total_count
                /\ jobs'[j].error_message = None
                /\ rows' = rows0]_vars

C12_Witness ==
    \E j \in DOMAIN jobs :
        /\ JobIsFor(j, "ADD")
        /\ jobs[j].total_count = MaxLen
        /\ AlreadyInEffect(j)
        /\ ex[j].pc = "finished"
        /\ jobs[j].status = "COMPLETED"
        /\ jobs[j].processed_count = jobs[j].total_count
        /\ rows = rows0

\* the chunk size the design gives a job of n identifiers
ChunkSizeFor(n) == IF n <= SmallLimit THEN SmallBatch ELSE LargeBatch

\* C13: every commit that changes a job's processed_count raises it by the
\* chunk size (1 for a list of at most 100 ids, 5 for a longer one), capped
\* at total_count, starting from 0: the committed values are chunk_size,
\* 2*chunk_size, ... ; the chunk taken at position i has that many ids or
\* what is left of the list; and the executor's COMPLETED is committed with
\* processed_count = total_count.
C13_ChunkedProgress ==
    /\ [](\A j \in DOMAIN jobs :
            LET n == jobs[j].total_count IN
            /\ \/ jobs[j].processed_count % ChunkSizeFor(n) = 0
               \/ jobs[j].processed_count = n
            /\ ex[j].pc \in {"lookup", "insert", "delete", "delcommit", "progress"} =>
                   /\ ex[j].i = jobs[j].processed_count
                   /\ Len(BatchIds(jobs[j].company_ids, ex[j].i))
                          = Min(ChunkSizeFor(n), n - ex[j].i))
    /\ [][\A j \in DOMAIN jobs :
            LET n == jobs[j].total_count IN
            /\ jobs'[j].processed_count # jobs[j].processed_count =>
                   jobs'[j].processed_count =
                       Min(jobs[j].processed_count + ChunkSizeFor(n), n)
            /\ (ex[j].pc = "complete" /\ ex'[j].pc = "finished") =>
                   jobs'[j].processed_count = n]_vars

C13_Witness ==
    \E j \in DOMAIN jobs :
        /\ jobs[j].total_count = SmallLimit
        /\ jobs[j].processed_count = SmallLimit - SmallBatch
        /\ ex[j].pc = "check"
        /\ jobs[j].status = "IN_PROGRESS"

\* C14: a job record is created with total_count the length of its list,
\* processed_count 0 and status PENDING, also for an empty list; the
\* executor of a job with an empty list never enters a chunk, issues no
\* association statement, leaves the rows and processed_count as they were
\* and records no error; unless it read CANCELLED at pickup it goes from the
\* IN_PROGRESS commit straight to the final commits, which leave the job
\* COMPLETED with processed_count 0.
C14_EmptyListJob ==
    /\ [](\A j \in DOMAIN jobs :
            /\ jobs[j].total_count = Len(jobs[j].company_ids)
            /\ jobs[j].company_ids = <<>> =>
                   /\ jobs[j].total_count = 0
                   /\ jobs[j].processed_count = 0
                   /\ jobs[j].error_message = None
                   /\ jobs[j].status # "FAILED"
                   /\ issued[j] = {}
                   /\ rows = rows0
                   /\ ex[j].pc \in {"queued", "aborted", "start", "final",
                                    "complete", "finished"})
    /\ [][/\ Len(jobs') > Len(jobs) =>
                /\ jobs'[Len(jobs')].status = "PENDING"
                /\ jobs'[Len(jobs')].processed_count = 0
                /\ jobs'[Len(jobs')].total_count = Len(jobs'[Len(jobs')].company_ids)
          /\ \A j \in DOMAIN jobs :
                jobs[j].company_ids = <<>> =>
                   /\ (ex[j].pc = "queued" /\ ex'[j].pc # "queued") =>
                          ex'[j].pc = IF jobs[j].status = "CANCELLED"
                                      THEN "aborted" ELSE "start"
                   /\ (ex[j].pc = "start" /\ ex'[j].pc # "start") =>
                          ex'[j].pc = "final"
                   /\ (ex[j].pc = "final" /\ ex'[j].pc # "final") =>
                          ex'[j].pc = "complete"
                   /\ (ex[j].pc = "complete" /\ ex'[j].pc # "complete") =>
                          /\ ex'[j].pc = "finished"
                          /\ jobs'[j].status = "COMPLETED"
                          /\ jobs'[j].processed_count = 0]_vars

C14_Witness ==
    \E j \in DOMAIN jobs :
        /\ jobs[j].company_ids = <<>>
        /\ j \notin acked
        /\ cancelling[j] = 0
        /\ ex[j].pc = "finished"
        /\ jobs[j].status = "COMPLETED"
        /\ jobs[j].processed_count = 0
        /\ rows = rows0

\* C15: under fair scheduling of the executors, from some point on for ever
\* every job that was created is one whose executor has returned and whose
\* committed status is COMPLETED, FAILED or CANCELLED, whatever cancel
\* requests interleave: no job stays PENDING or IN_PROGRESS for ever.
C15_EveryJobEnds ==
    <>[](\A j \in DOMAIN jobs : Stopped(j) /\ jobs[j].status \in Terminal)

C15_Witness ==
    \E j \in DOMAIN jobs :
        /\ Stopped(j)
        /\ jobs[j].status \in Terminal
        /\ j \in acked
        /\ jobs[j].processed_count = MaxLen

\* C16: in every state a job whose committed status is COMPLETED has
\* processed_count = total_count, under every interleaving with cancel
\* requests.
C16_CompletedIsFullyProcessed ==
    \A j \in DOMAIN jobs :
        jobs[j].status = "COMPLETED" =>
            jobs[j].processed_count = jobs[j].total_count

C16_Witness ==
    \E j \in DOMAIN jobs :
        /\ jobs[j].status = "COMPLETED"
        /\ j \in acked
        /\ jobs[j].total_count > SmallLimit
        /\ jobs[j].processed_count = jobs[j].total_count

\* the start indices of the chunks before index i
ChunkStartsBefore(j, i) ==
    {c \in 0..(i - 1) : c % ChunkSizeFor(jobs[j].total_count) = 0}

\* C17: within one job the list positions whose mutation has been applied
\* form a prefix of the list, reaching no further than the chunk dispatched
\* last; and a chunk starting at index i is dispatched only when every chunk
\* starting before i was dispatched and every position before i is applied.
C17_ChunksInOrder ==
    /\ [](\A j \in DOMAIN ex :
            /\ ex[j].applied = 1..Cardinality(ex[j].applied)
            /\ Cardinality(ex[j].applied) <= jobs[j].total_count
            /\ \A p \in ex[j].applied : \E c \in ex[j].dispatched :
                   c < p /\ p <= c + ChunkSizeFor(jobs[j].total_count))
    /\ [][\A j \in DOMAIN ex : \A c \in ex'[j].dispatched \ ex[j].dispatched :
            /\ ex'[j].dispatched = ex[j].dispatched \cup {c}
            /\ ex[j].dispatched = ChunkStartsBefore(j, c)
            /\ ex[j].applied = 1..c
            /\ c < jobs[j].total_count]_vars

C17_Witness ==
    \E j \in DOMAIN ex :
        /\ JobIsFor(j, "DELETE")
        /\ ex[j].pc = "failed"
        /\ Cardinality(ex[j].dispatched) = 2
        /\ Cardinality(ex[j].applied) = LargeBatch + 2

\* C18: whenever the executor is at the cancellation check of the chunk
\* starting at index i, the committed processed_count is i, every position
\* before i has had its mutation committed and is still in effect in the
\* rows (no other job exists), and the executor holds no uncommitted DELETE.
C18_CommittedBeforeCheck ==
    \A j \in DOMAIN ex :
        ex[j].pc = "check" =>
            /\ jobs[j].processed_count = ex[j].i
            /\ ex[j].applied = 1..ex[j].i
            /\ EarlierChunksKept(j, ex[j].i, rows)
            /\ \A x \in Ids : ex[j].pend[x] = 0

C18_Witness ==
    \E j \in DOMAIN ex :
        /\ JobIsFor(j, "ADD")
        /\ ex[j].pc = "check"
        /\ ex[j].i = 2 * LargeBatch
        /\ jobs[j].processed_count = 2 * LargeBatch
        /\ rows # rows0

\* C19: in every state a job's error_message is set if and only if its
\* committed status is FAILED.
C19_ErrorMessageIffFailed ==
    \A j \in DOMAIN jobs :
        (jobs[j].error_message # None) <=> (jobs[j].status = "FAILED")

InList(j, x) == \E p \in 1..Len(jobs[j].company_ids) : jobs[j].company_ids[p] = x

\* C20: a step of the executor of job j leaves every other job's record,
\* executor and statements alone, and changes of job j's record nothing but
\* status, processed_count and error_message; if j is an ADD job the step
\* removes no row and adds rows only for pairs (id, target) with id in j's
\* list; if j is a DELETE job it adds no row and removes rows only of pairs
\* (id, source) with id in j's list; the statements an executor has issued
\* are all of its job's kind, collection and list.  Failing steps included.
C20_ExecutorFrame ==
    /\ [](\A j \in DOMAIN jobs : \A st \in issued[j] :
            /\ InList(j, st[2])
            /\ IF jobs[j].job_type = "ADD"
               THEN st[1] = "insert" /\ st[3] = jobs[j].target_collection_id
               ELSE st[1] = "delete" /\ st[3] = jobs[j].source_collection_id)
    /\ [][\A j \in DOMAIN ex :
            ex'[j] # ex[j] =>
                /\ \A o \in DOMAIN jobs \ {j} :
                       jobs'[o] = jobs[o] /\ ex'[o] = ex[o] /\ issued'[o] = issued[o]
                /\ jobs'[j] = [jobs[j] EXCEPT
                                  !.status = jobs'[j].status,
                                  !.processed_count = jobs'[j].processed_count,
                                  !.error_message = jobs'[j].error_message]
                /\ \A pr \in Pairs :
                       rows'[pr] # rows[pr] =>
                          /\ InList(j, pr[1])
                          /\ IF jobs[j].job_type = "ADD"
                             THEN /\ pr[2] = jobs[j].target_collection_id
                                  /\ rows'[pr] > rows[pr]
                             ELSE /\ pr[2] = jobs[j].source_collection_id
                                  /\ rows'[pr] < rows[pr]]_vars

C20_Witness ==
    /\ Len(jobs) = 2
    /\ \E a \in DOMAIN jobs, d \in DOMAIN jobs :
          /\ JobIsFor(a, "ADD") /\ jobs[a].target_collection_id = "c2"
          /\ ex[a].pc = "finished"
          /\ JobIsFor(d, "DELETE") /\ jobs[d].source_collection_id = "c1"
          /\ ex[d].pc = "failed"
          /\ rows0[<<1, "c1">>] = 1 /\ rows[<<1, "c1">>] = 0
          /\ rows[<<1, "c2">>] = 1
====
